---- MODULE Spec2Model ----
(***************************************************************************)
(* Device and surface negotiation of gfx-hal-tutorial, part 01:            *)
(* src/src/01/src/main.rs, fn main, lines 40-97.                           *)
(*                                                                         *)
(* main is one straight-line sequence.  Every statement that reads the     *)
(* graphics driver or the window, or that can panic, is one action; pc is  *)
(* the position in main.  What the driver and the window report is fixed   *)
(* before main runs (instance_adapters, surface_compat, window_inner_size) *)
(* and is only read.                                                       *)
(***************************************************************************)
EXTENDS Integers, Sequences, FiniteSets

VARIABLES
    instance_adapters,   \* what instance.enumerate_adapters() yields (l.41)
    surface_compat,      \* what surface.compatibility(..) yields (l.53)
    window_inner_size,   \* the window's physical inner size (l.67)
    pc,                  \* position in main
    failure,             \* the panic that ended main, "none" while running
    calls,               \* driver calls made so far, in order
    adapters,            \* let mut adapters (l.41)
    adapter,             \* let mut adapter (l.47)
    device,              \* (device, queue_group) (l.49)
    capabilities,        \* l.53
    formats,             \* l.53
    presentation_modes,  \* l.53
    format,              \* l.55
    extent,              \* l.64
    presentation_mode,   \* l.81
    swap_config,         \* l.87
    swapchain_request    \* the arguments of device.create_swapchain (l.92)

vars == <<instance_adapters, surface_compat, window_inner_size, pc, failure,
          calls, adapters, adapter, device, capabilities, formats,
          presentation_modes, format, extent, presentation_mode, swap_config,
          swapchain_request>>

env == <<instance_adapters, surface_compat, window_inner_size>>

----------------------------------------------------------------------------
(* Bounds of the explored environments.                                    *)

MaxAdapters == 2
MaxFamilies == 1
MaxDim == 2
MaxFormats == 3
MaxModes == 3

----------------------------------------------------------------------------
(* Values.                                                                 *)

\* Option<T>: None is the empty tuple, Some(x) the one-element tuple.
None == <<>>
Some(x) == <<x>>

SeqUpTo(S, n) == UNION {[1..k -> S] : k \in 0..n}

Min(a, b) == IF a <= b THEN a ELSE b
Max(a, b) == IF a >= b THEN a ELSE b

\* hal::window::Extent2D
Extent2D(w, h) == [width |-> w, height |-> h]

\* hal::format::Format, the members the environments report
Format == {"Bgra8Unorm", "Rgba8Unorm", "Rgba8Srgb", "Bgra8Srgb"}

\* format.base_format().1
ChannelType(f) == IF f \in {"Rgba8Srgb", "Bgra8Srgb"} THEN "Srgb" ELSE "Unorm"

\* hal::window::PresentMode
PresentMode == {"Immediate", "Mailbox", "Fifo", "Relaxed"}

\* A queue family of an adapter: whether it is of the Graphics capability
\* open_with::<_, hal::Graphics> asks for, and whether
\* surface.supports_queue_family(family) holds.  Every family holds at least
\* the one queue requested.
QueueFamily == [graphics : BOOLEAN, present : BOOLEAN]

----------------------------------------------------------------------------
(* The negotiation policies, as main computes them.                        *)

\* Index of the first element of list that is in Matching; 0 when there is
\* none.  Iterator::find returns the first match in order.
FindIndex(list, Matching) ==
    IF \E i \in 1..Len(list) : list[i] \in Matching
    THEN CHOOSE i \in 1..Len(list) :
             /\ list[i] \in Matching
             /\ \A j \in 1..(i - 1) : list[j] \notin Matching
    ELSE 0

\* The family Adapter::open_with::<_, hal::Graphics>(1, selector) requests:
\* the first family of the requested capability for which the selector
\* (surface.supports_queue_family) holds; 0 when no family fits, which
\* open_with reports as Err(DeviceCreationError).
RequestedFamilies == {family \in QueueFamily : family.graphics /\ family.present}

requested_family(a) == FindIndex(a.queue_families, RequestedFamilies)

\* |format| format.base_format().1 == f::ChannelType::Srgb
SrgbFormats == {f \in Format : ChannelType(f) = "Srgb"}

\* formats[0] is an argument of unwrap_or and so is evaluated for every
\* reported list: indexing an empty Vec panics.
format_index_panics(fmts) == fmts # None /\ Len(fmts[1]) = 0

\* Variant that never looks for an sRGB format.
negotiate_surface_format_first(fmts) ==
    IF fmts = None THEN "Rgba8Srgb" ELSE fmts[1][1]

\* l.55-62, for an Option<Vec<Format>> on which formats[0] does not panic.

negotiate_surface_format(fmts) ==
    IF fmts = None
    THEN "Rgba8Srgb"
    ELSE LET list == fmts[1]
             found == FindIndex(list, SrgbFormats)
         IN  IF found # 0 THEN list[found] ELSE list[1]

\* Variant without the .min(extents.end) half of the clamp.
negotiate_extent_no_upper(caps, window_size) ==
    IF caps.current_extent # None
    THEN caps.current_extent[1]
    ELSE Extent2D(Max(window_size.width, caps.extents.start.width),
                  Max(window_size.height, caps.extents.start.height))

\* Variant that clamps a defined current_extent as well.
negotiate_extent_clamp_current(caps, window_size) ==
    LET e == IF caps.current_extent # None
             THEN caps.current_extent[1]
             ELSE window_size
    IN  Extent2D(
            Min(Max(e.width, caps.extents.start.width),
                caps.extents.end.width),
            Min(Max(e.height, caps.extents.start.height),
                caps.extents.end.height))

\* l.64-79
negotiate_extent(caps, window_size) ==
    IF caps.current_extent # None
    THEN caps.current_extent[1]
    ELSE Extent2D(
            Min(Max(window_size.width, caps.extents.start.width),
                caps.extents.end.width),
            Min(Max(window_size.height, caps.extents.start.height),
                caps.extents.end.height))

\* Variant that takes the first supported mode.
negotiate_presentation_mode_first(modes) ==
    IF Len(modes) > 0 THEN modes[1] ELSE "Fifo"

\* l.81-85
negotiate_presentation_mode(modes) ==
    LET found == FindIndex(modes, {"Immediate"})
    IN  IF found # 0 THEN modes[found] ELSE "Fifo"

----------------------------------------------------------------------------
(* Environments.                                                           *)

Dim == 0..MaxDim

Extent == [width : Dim, height : Dim]

\* Range<Extent2D> with start <= end in both dimensions.
ExtentRange ==
    {r \in [start : Extent, end : Extent] :
        r.start.width <= r.end.width /\ r.start.height <= r.end.height}

\* hal::SurfaceCapabilities: the fields main reads.
SurfaceCapabilities(CurrentExtents, Ranges) ==
    [current_extent : CurrentExtents, extents : Ranges,
     image_count : {[start |-> 2, end |-> 3]}]

\* enumerate_adapters: adapters in enumeration order, id the position.
AdapterLists ==
    {[i \in 1..Len(fams) |-> [id |-> i, queue_families |-> fams[i]]] :
        fams \in SeqUpTo(SeqUpTo(QueueFamily, MaxFamilies), MaxAdapters)}

\* One adapter with one family that is Graphics and presents to the surface.
UsableAdapterList ==
    <<[id |-> 1,
       queue_families |-> <<[graphics |-> TRUE, present |-> TRUE]>>]>>

FixedRange == [start |-> Extent2D(1, 1), end |-> Extent2D(2, 2)]

FixedCapabilities == SurfaceCapabilities({None}, {FixedRange})

\* Environments of Spec: every adapter list, and for the surface a
\* current_extent that is absent, inside or outside extents, a format list
\* that is absent, empty or not, modes with and without Immediate.
SampleCapabilities ==
    SurfaceCapabilities(
        {None, Some(Extent2D(1, 2)), Some(Extent2D(3, 3))}, {FixedRange})

SampleFormats == {None, Some(<<>>), Some(<<"Bgra8Unorm", "Rgba8Srgb">>)}

SampleModes == {<<"Fifo">>, <<"Mailbox", "Immediate", "Fifo">>}

SampleWindows == {Extent2D(0, 3)}

Compat(Caps, Formats, Modes) ==
    [capabilities : Caps, formats : Formats, presentation_modes : Modes]

----------------------------------------------------------------------------
(* The state when main starts, for a set of environments.                  *)

InitWith(AdapterSet, CompatSet, WindowSet) ==
    /\ instance_adapters \in AdapterSet
    /\ surface_compat \in CompatSet
    /\ window_inner_size \in WindowSet
    /\ pc = "enumerate"
    /\ failure = "none"
    /\ calls = <<>>
    /\ adapters = <<>>
    /\ adapter = None
    /\ device = None
    /\ capabilities = None
    /\ formats = None
    /\ presentation_modes = <<>>
    /\ format = "unset"
    /\ extent = None
    /\ presentation_mode = "unset"
    /\ swap_config = None
    /\ swapchain_request = None

Init ==
    InitWith(AdapterLists,
             Compat(SampleCapabilities, SampleFormats, SampleModes),
             SampleWindows)

InitExtent ==
    InitWith({UsableAdapterList},
             Compat(SurfaceCapabilities({None} \cup {Some(e) : e \in Extent},
                                        ExtentRange),
                    {None}, {<<"Fifo">>}),
             Extent)

InitFormat ==
    InitWith({UsableAdapterList},
             Compat(FixedCapabilities,
                    {None} \cup {Some(l) : l \in SeqUpTo(Format, MaxFormats)},
                    {<<"Fifo">>}),
             SampleWindows)

InitMode ==
    InitWith({UsableAdapterList},
             Compat(FixedCapabilities, {None},
                    SeqUpTo(PresentMode, MaxModes)),
             SampleWindows)

----------------------------------------------------------------------------
(* The statements of main, l.40-97.                                        *)

\* l.41: let mut adapters = instance.enumerate_adapters();
\* l.43-45 only print each adapter's info.
EnumerateAdapters ==
    /\ pc = "enumerate"
    /\ adapters' = instance_adapters
    /\ calls' = Append(calls, "enumerate_adapters")
    /\ pc' = "select"
    /\ UNCHANGED <<env, failure, adapter, device, capabilities, formats,
                   presentation_modes, format, extent, presentation_mode,
                   swap_config, swapchain_request>>

\* Variant that goes on with a default adapter when none is enumerated.
SelectAdapter_default ==
    /\ pc = "select"
    /\ IF adapters = <<>>
       THEN /\ adapter' = Some(UsableAdapterList[1])
            /\ adapters' = adapters
       ELSE /\ adapter' = Some(Head(adapters))
            /\ adapters' = Tail(adapters)
    /\ pc' = "open"
    /\ UNCHANGED <<env, failure, calls, device, capabilities, formats,
                   presentation_modes, format, extent, presentation_mode,
                   swap_config, swapchain_request>>

\* l.47: let mut adapter = adapters.remove(0);
\* Vec::remove panics when the index is out of bounds.
SelectAdapter ==
    /\ pc = "select"
    /\ IF adapters = <<>>
       THEN /\ failure' = "remove_index_out_of_bounds"
            /\ pc' = "aborted"
            /\ UNCHANGED <<adapter, adapters>>
       ELSE /\ adapter' = Some(Head(adapters))
            /\ adapters' = Tail(adapters)
            /\ pc' = "open"
            /\ UNCHANGED failure
    /\ UNCHANGED <<env, calls, device, capabilities, formats,
                   presentation_modes, format, extent, presentation_mode,
                   swap_config, swapchain_request>>

\* Variant that does not unwrap the result of open_with.
OpenDevice_ignore_err ==
    /\ pc = "open"
    /\ calls' = Append(calls, "open_with")
    /\ LET family == requested_family(adapter[1])
       IN  IF family = 0
           THEN /\ failure' = "DeviceCreationError"
                /\ device' = None
           ELSE /\ device' = Some([adapter |-> adapter[1].id,
                                   family |-> family])
                /\ UNCHANGED failure
    /\ pc' = "compatibility"
    /\ UNCHANGED <<env, adapters, adapter, capabilities, formats,
                   presentation_modes, format, extent, presentation_mode,
                   swap_config, swapchain_request>>

\* l.49-51: adapter.open_with::<_, hal::Graphics>(1, |family|
\*          surface.supports_queue_family(family)).unwrap();
OpenDevice ==
    /\ pc = "open"
    /\ calls' = Append(calls, "open_with")
    /\ LET family == requested_family(adapter[1])
       IN  IF family = 0
           THEN /\ failure' = "DeviceCreationError"
                /\ pc' = "aborted"
                /\ UNCHANGED device
           ELSE /\ device' = Some([adapter |-> adapter[1].id,
                                   family |-> family])
                /\ pc' = "compatibility"
                /\ UNCHANGED failure
    /\ UNCHANGED <<env, adapters, adapter, capabilities, formats,
                   presentation_modes, format, extent, presentation_mode,
                   swap_config, swapchain_request>>

\* l.53: let (capabilities, formats, presentation_modes) =
\*           surface.compatibility(&adapter.physical_device);
QueryCompatibility ==
    /\ pc = "compatibility"
    /\ calls' = Append(calls, "compatibility")
    /\ capabilities' = Some(surface_compat.capabilities)
    /\ formats' = Some(surface_compat.formats)
    /\ presentation_modes' = surface_compat.presentation_modes
    /\ pc' = "format"
    /\ UNCHANGED <<env, failure, adapters, adapter, device, format, extent,
                   presentation_mode, swap_config, swapchain_request>>

\* l.55-62
NegotiateFormat ==
    /\ pc = "format"
    /\ IF format_index_panics(formats[1])
       THEN /\ failure' = "index_out_of_bounds"
            /\ pc' = "aborted"
            /\ UNCHANGED format
       ELSE /\ format' = negotiate_surface_format(formats[1])
            /\ pc' = "extent"
            /\ UNCHANGED failure
    /\ UNCHANGED <<env, calls, adapters, adapter, device, capabilities,
                   formats, presentation_modes, extent, presentation_mode,
                   swap_config, swapchain_request>>

\* l.64-79
NegotiateExtent ==
    /\ pc = "extent"
    /\ extent' = Some(negotiate_extent(capabilities[1], window_inner_size))
    /\ pc' = "present_mode"
    /\ UNCHANGED <<env, failure, calls, adapters, adapter, device,
                   capabilities, formats, presentation_modes, format,
                   presentation_mode, swap_config, swapchain_request>>

\* l.81-85
NegotiatePresentationMode ==
    /\ pc = "present_mode"
    /\ presentation_mode' = negotiate_presentation_mode(presentation_modes)
    /\ pc' = "config"
    /\ UNCHANGED <<env, failure, calls, adapters, adapter, device,
                   capabilities, formats, presentation_modes, format, extent,
                   swap_config, swapchain_request>>

\* l.87-90: SwapchainConfig::new().with_color(format)
\*          .with_image_count(capabilities.image_count.start)
\*          .with_image_usage(i::Usage::COLOR_ATTACHMENT);
BuildSwapchainConfig ==
    /\ pc = "config"
    /\ swap_config' = Some([color_format |-> format,
                            image_count |-> capabilities[1].image_count.start,
                            image_usage |-> "COLOR_ATTACHMENT"])
    /\ pc' = "create"
    /\ UNCHANGED <<env, failure, calls, adapters, adapter, device,
                   capabilities, formats, presentation_modes, format, extent,
                   presentation_mode, swapchain_request>>

\* l.92-97: device.create_swapchain(&mut surface, swap_config, None, &extent);
CreateSwapchain ==
    /\ pc = "create"
    /\ calls' = Append(calls, "create_swapchain")
    /\ swapchain_request' = Some([device |-> device[1],
                                  config |-> swap_config[1],
                                  previous_swapchain |-> None,
                                  extent |-> extent[1]])
    /\ pc' = "done"
    /\ UNCHANGED <<env, failure, adapters, adapter, device, capabilities,
                   formats, presentation_modes, format, extent,
                   presentation_mode, swap_config>>

Next ==
    \/ EnumerateAdapters
    \/ SelectAdapter
    \/ OpenDevice
    \/ QueryCompatibility
    \/ NegotiateFormat
    \/ NegotiateExtent
    \/ NegotiatePresentationMode
    \/ BuildSwapchainConfig
    \/ CreateSwapchain

\* main over every adapter list, with sample surfaces.
Spec == Init /\ [][Next]_vars

\* main on a usable adapter, over every extent range, current_extent and
\* window size.
SpecExtent == InitExtent /\ [][Next]_vars

\* main on a usable adapter, over every reported format list.
SpecFormat == InitFormat /\ [][Next]_vars

\* main on a usable adapter, over every supported-mode list.
SpecMode == InitMode /\ [][Next]_vars

----------------------------------------------------------------------------
(* Properties.                                                             *)

Elements(list) == {list[i] : i \in 1..Len(list)}

Terminated == pc \in {"done", "aborted"}

PastFormat == pc \in {"extent", "present_mode", "config", "create", "done"}

PastExtent == pc \in {"present_mode", "config", "create", "done"}

PastPresentationMode == pc \in {"config", "create", "done"}

DeviceCalls == {"open_with", "compatibility", "create_swapchain"}

FullChain ==
    <<"enumerate_adapters", "open_with", "compatibility", "create_swapchain">>

WithinExtents(e, range) ==
    /\ range.start.width <= e.width /\ e.width <= range.end.width
    /\ range.start.height <= e.height /\ e.height <= range.end.height

\* An adapter qualifies when one of its queue families supports presentation
\* to the surface and is of the capability the device is opened with.
Qualifies(a) ==
    \E i \in 1..Len(a.queue_families) :
        a.queue_families[i].present /\ a.queue_families[i].graphics

QualifyingIds ==
    {i \in 1..Len(instance_adapters) : Qualifies(instance_adapters[i])}

\* The presentation mode a create_swapchain request carries.
RequestedPresentMode(request) ==
    IF "present_mode" \in DOMAIN request.config
    THEN request.config.present_mode
    ELSE "not_requested"

\* C1: whenever some enumerated adapter qualifies, the device is opened on
\* the lowest-indexed qualifying adapter, also when adapters before it do
\* not qualify.
C1_FirstQualifyingAdapter ==
    (Terminated /\ QualifyingIds # {}) =>
        /\ device # None
        /\ \A i \in QualifyingIds : device[1].adapter <= i
        /\ device[1].adapter \in QualifyingIds

\* C2: the create_swapchain request carries the negotiated format, extent
\* and presentation mode.
C2_RequestCarriesTriple ==
    pc = "done" =>
        /\ swapchain_request[1].config.color_format = format
        /\ swapchain_request[1].extent = extent[1]
        /\ RequestedPresentMode(swapchain_request[1]) = presentation_mode

\* C3: when create_swapchain is requested, format, extent and image count
\* lie within what the surface reported, for every capability set.
C3_RequestWithinCapabilities ==
    swapchain_request # None =>
        LET request == swapchain_request[1]
            caps == capabilities[1]
        IN  /\ formats[1] # None =>
                   request.config.color_format \in Elements(formats[1][1])
            /\ WithinExtents(request.extent, caps.extents)
            /\ caps.image_count.start <= request.config.image_count
            /\ request.config.image_count <= caps.image_count.end

\* C4: without a current_extent the negotiated extent lies within
\* extents in each dimension, a dimension of the window size already inside
\* its bounds is kept, and no step has failed; bounds (640,480)..(1920,1080)
\* with window (100,100) give (640,480).
C4_ExtentClamped ==
    /\ (PastExtent /\ capabilities[1].current_extent = None) =>
           LET range == capabilities[1].extents
               w == window_inner_size
               e == extent[1]
           IN  /\ failure = "none"
               /\ WithinExtents(e, range)
               /\ (range.start.width <= w.width /\ w.width <= range.end.width)
                      => e.width = w.width
               /\ (range.start.height <= w.height
                       /\ w.height <= range.end.height)
                      => e.height = w.height
    /\ negotiate_extent(
           [current_extent |-> None,
            extents |-> [start |-> Extent2D(640, 480),
                         end |-> Extent2D(1920, 1080)]],
           Extent2D(100, 100)) = Extent2D(640, 480)

C4_Witness ==
    /\ pc = "done"
    /\ capabilities[1].current_extent = None
    /\ window_inner_size.width < capabilities[1].extents.start.width
    /\ window_inner_size.height > capabilities[1].extents.end.height
    /\ extent[1] = Extent2D(capabilities[1].extents.start.width,
                            capabilities[1].extents.end.height)

\* C5: with a current_extent the negotiated extent is exactly that extent,
\* whatever the window size and the extents bounds; current_extent (800,600)
\* with window (1280,720) gives (800,600).
C5_CurrentExtentVerbatim ==
    /\ (PastExtent /\ capabilities[1].current_extent # None) =>
           extent[1] = capabilities[1].current_extent[1]
    /\ negotiate_extent(
           [current_extent |-> Some(Extent2D(800, 600)),
            extents |-> [start |-> Extent2D(640, 480),
                         end |-> Extent2D(720, 540)]],
           Extent2D(1280, 720)) = Extent2D(800, 600)

C5_Witness ==
    /\ pc = "done"
    /\ capabilities[1].current_extent # None
    /\ capabilities[1].current_extent[1] # window_inner_size
    /\ ~WithinExtents(capabilities[1].current_extent[1],
                      capabilities[1].extents)
    /\ extent[1] = capabilities[1].current_extent[1]

\* C6: the negotiated format is the first sRGB format of the reported list
\* when the list holds one, the list's first entry when it holds none, and
\* Rgba8Srgb when no list is reported; [Bgra8Unorm, Rgba8Srgb] gives
\* Rgba8Srgb.
C6_FormatPolicy ==
    /\ PastFormat =>
           IF formats[1] = None
           THEN format = "Rgba8Srgb"
           ELSE LET list == formats[1][1]
                IN  IF \E i \in 1..Len(list) : ChannelType(list[i]) = "Srgb"
                    THEN \E i \in 1..Len(list) :
                             /\ format = list[i]
                             /\ ChannelType(list[i]) = "Srgb"
                             /\ \A j \in 1..(i - 1) :
                                    ChannelType(list[j]) # "Srgb"
                    ELSE format = list[1]
    /\ negotiate_surface_format(Some(<<"Bgra8Unorm", "Rgba8Srgb">>))
           = "Rgba8Srgb"

C6_Witness ==
    /\ pc = "done"
    /\ formats[1] # None
    /\ Len(formats[1][1]) = 3
    /\ ChannelType(formats[1][1][1]) # "Srgb"
    /\ ChannelType(formats[1][1][2]) = "Srgb"
    /\ ChannelType(formats[1][1][3]) = "Srgb"
    /\ formats[1][1][2] # formats[1][1][3]
    /\ format = formats[1][1][2]

\* C7: the negotiated presentation mode is Immediate when the supported
\* modes contain Immediate, at whatever position, and Fifo otherwise.
C7_PresentationModePolicy ==
    PastPresentationMode =>
        IF "Immediate" \in Elements(presentation_modes)
        THEN presentation_mode = "Immediate"
        ELSE presentation_mode = "Fifo"

C7_Witness ==
    /\ pc = "done"
    /\ Len(presentation_modes) = 3
    /\ presentation_modes[1] = "Mailbox"
    /\ presentation_modes[2] = "Fifo"
    /\ presentation_modes[3] = "Immediate"
    /\ presentation_mode = "Immediate"

\* C8: when no adapter is enumerated, main ends at the adapter selection,
\* before any device call: open_with, compatibility and create_swapchain are
\* never called.
C8_NoAdaptersAbortsFirst ==
    instance_adapters = <<>> =>
        /\ pc \in {"enumerate", "select", "aborted"}
        /\ pc = "aborted" => failure = "remove_index_out_of_bounds"
        /\ Elements(calls) \cap DeviceCalls = {}
        /\ device = None
        /\ swapchain_request = None

C8_Witness ==
    /\ instance_adapters = <<>>
    /\ pc = "aborted"
    /\ failure = "remove_index_out_of_bounds"
    /\ calls = <<"enumerate_adapters">>

\* C9: a run either completes the whole chain or stops at its first failing
\* step with no later step attempted; when open_with fails, compatibility is
\* never queried and create_swapchain never requested.
C9_NoPartialSuccess ==
    /\ pc = "done" =>
           /\ failure = "none"
           /\ calls = FullChain
           /\ device # None
           /\ swapchain_request # None
    /\ failure # "none" =>
           /\ pc = "aborted"
           /\ swapchain_request = None
           /\ "create_swapchain" \notin Elements(calls)
    /\ pc = "aborted" => failure # "none"
    /\ failure = "remove_index_out_of_bounds" =>
           /\ calls = <<"enumerate_adapters">>
           /\ adapter = None
           /\ device = None
    /\ failure = "DeviceCreationError" =>
           /\ calls = <<"enumerate_adapters", "open_with">>
           /\ device = None
           /\ capabilities = None
           /\ formats = None
    /\ failure = "index_out_of_bounds" =>
           /\ calls = <<"enumerate_adapters", "open_with", "compatibility">>
           /\ format = "unset"
           /\ extent = None
           /\ presentation_mode = "unset"
           /\ swap_config = None

C9_Witness ==
    /\ pc = "aborted"
    /\ failure = "DeviceCreationError"
    /\ Len(instance_adapters) = 2
    /\ QualifyingIds = {2}
    /\ calls = <<"enumerate_adapters", "open_with">>

\* C10: format negotiation yields a format for every value the surface can
\* report, a member of the reported list when there is one, also for a list
\* that is present but empty, without aborting.
C10_FormatAlwaysYielded ==
    (Terminated /\ formats # None) =>
        /\ failure = "none"
        /\ format # "unset"
        /\ formats[1] # None => format \in Elements(formats[1][1])

====
